---- MODULE Spec2Model ----
(***************************************************************************)
(* Model of nltk/corpus/reader/wikicorpus.py: the Wikicorpus block parser  *)
(* WikicorpusCorpusView.read_block, its line source read_clean_line and    *)
(* the regular expressions that decode token lines.                        *)
(*                                                                         *)
(* Text.  A Python string is a sequence of symbols.  A symbol is a         *)
(* whitespace character (" ", TAB, NBSP), one decimal digit ("0".."9"), or *)
(* an atom: a TLA+ string standing for a maximal piece of text that holds  *)
(* no whitespace and does not start with a digit ("NP00000", "</doc>").    *)
(* The text of a line is the concatenation of its symbols.                 *)
(*                                                                         *)
(* Values.  A Python value is a record [ty, v]: Str(s) is the str whose    *)
(* text is s, None is None, and PyInt(s) is the int whose decimal numeral *)
(* is s, so that 0 and '0' are different values, as they are in Python.    *)
(***************************************************************************)
EXTENDS Integers, Sequences, FiniteSets, TLC

----------------------------------------------------------------------------
(* Symbols and Python values *)

SP == " "
TAB == "\t"
\* chr(160), the no-break space
NBSP == "<U+00A0>"

WS == {SP, TAB, NBSP}
Digits == {"0", "1", "2", "3", "4", "5", "6", "7", "8", "9"}

IsSpace(c) == c \in WS
IsDigit(c) == c \in Digits

Str(s) == [ty |-> "str", v |-> s]
PyInt(s) == [ty |-> "int", v |-> s]
None == [ty |-> "NoneType", v |-> <<>>]

----------------------------------------------------------------------------
(* Scanning helpers: the greedy quantifiers of the regular expressions *)

\* \S+ from position i: the first position at or after i that is not a non-space
RECURSIVE SkipNonSpace(_, _)
SkipNonSpace(s, i) ==
    IF i <= Len(s) /\ ~IsSpace(s[i]) THEN SkipNonSpace(s, i + 1) ELSE i

\* \s+ from position i
RECURSIVE SkipSpace(_, _)
SkipSpace(s, i) ==
    IF i <= Len(s) /\ IsSpace(s[i]) THEN SkipSpace(s, i + 1) ELSE i

\* \d+ from position i
RECURSIVE SkipDigits(_, _)
SkipDigits(s, i) ==
    IF i <= Len(s) /\ IsDigit(s[i]) THEN SkipDigits(s, i + 1) ELSE i

\* does s hold the symbols of lit from position i on
HasLiteralAt(s, i, lit) ==
    /\ i + Len(lit) - 1 <= Len(s)
    /\ \A k \in 1..Len(lit) : s[i + k - 1] = lit[k]

\* Start of the k-th run of \S+ separated by \s+, counting from a run that
\* starts at position i; 0 when the text has no such run.
RECURSIVE NthRunStart(_, _, _)
NthRunStart(s, i, k) ==
    IF i > Len(s) \/ IsSpace(s[i]) THEN 0
    ELSE IF k = 1 THEN i
    ELSE LET e == SkipNonSpace(s, i)
             w == SkipSpace(s, e)
         IN  IF w = e THEN 0 ELSE NthRunStart(s, w, k - 1)

\* The failed match of re.match: None.  A successful match is its groups().
NoMatch == <<>>

\* (\S+(\s+\S+){n-1})\s+(\S+(\s+\S+){n-1})\s+(\S+)\s+(\d+) matched at the start
\* of s: word and lemma of n runs each, then a tag run, then leading digits.
\* Every \S+ is followed by \s+, so it takes a whole run; (\d+) takes the
\* leading digits of the last run and the match ends there (re.match does not
\* anchor the end).
MatchWordPattern(s, n) ==
    LET b(k) == NthRunStart(s, 1, k)
        bSense == b(2 * n + 2)
    IN  IF bSense = 0 THEN NoMatch
        ELSE IF SkipDigits(s, bSense) = bSense THEN NoMatch
        ELSE << SubSeq(s, b(1), SkipNonSpace(s, b(n)) - 1),
                SubSeq(s, b(n + 1), SkipNonSpace(s, b(2 * n)) - 1),
                SubSeq(s, b(2 * n + 1), SkipNonSpace(s, b(2 * n + 1)) - 1),
                SubSeq(s, bSense, SkipDigits(s, bSense) - 1) >>

PATTERN_WORD(s) == MatchWordPattern(s, 1)
PATTERN_WORD_DOUBLE(s) == MatchWordPattern(s, 2)
PATTERN_WORD_TRIPLE(s) == MatchWordPattern(s, 3)

----------------------------------------------------------------------------
(* The document-start marker *)

DocStartOpen == <<"<doc", SP, "id=\"">>
DocStartTitle == <<"\"", SP, "title=\"">>
DocStartNonfiltered == <<"\"", SP, "nonfiltered=\"">>
DocStartProcessed == <<"\"", SP, "processed=\"">>
DocStartDbindex == <<"\"", SP, "dbindex=\"">>
DocStartClose == <<"\">">>

\* " nonfiltered="\d+" processed="\d+" dbindex="(\d+)"> matched at position i:
\* the dbindex group, or NoMatch
MatchDocStartTail(s, i) ==
    LET n1 == i + Len(DocStartNonfiltered)
        n2 == SkipDigits(s, n1)
        p1 == n2 + Len(DocStartProcessed)
        p2 == SkipDigits(s, p1)
        d1 == p2 + Len(DocStartDbindex)
        d2 == SkipDigits(s, d1)
    IN  IF /\ HasLiteralAt(s, i, DocStartNonfiltered) /\ n2 > n1
           /\ HasLiteralAt(s, n2, DocStartProcessed) /\ p2 > p1
           /\ HasLiteralAt(s, p2, DocStartDbindex) /\ d2 > d1
           /\ HasLiteralAt(s, d2, DocStartClose)
        THEN <<SubSeq(s, d1, d2 - 1)>>
        ELSE NoMatch

\* <doc id="(\d+)" title="(.*)" nonfiltered="\d+" processed="\d+" dbindex="(\d+)">
\* matched at the start of s.  (.*) is greedy: the title is the longest text
\* after which the rest of the pattern still matches.
PATTERN_DOC_START(s) ==
    LET i1 == 1 + Len(DocStartOpen)
        i2 == SkipDigits(s, i1)
        t1 == i2 + Len(DocStartTitle)
        ends == {e \in t1..(Len(s) + 1) : MatchDocStartTail(s, e) # NoMatch}
    IN  IF /\ HasLiteralAt(s, 1, DocStartOpen) /\ i2 > i1
           /\ HasLiteralAt(s, i2, DocStartTitle)
           /\ ends # {}
        THEN LET e == CHOOSE x \in ends : \A y \in ends : y <= x
             IN  << SubSeq(s, i1, i2 - 1),
                    SubSeq(s, t1, e - 1),
                    MatchDocStartTail(s, e)[1] >>
        ELSE NoMatch

----------------------------------------------------------------------------
(* Literal lines of the format *)

FAILING_LINE_WORD == <<"3", "0", "_de_gener_de_1994">>
FAILING_LINE_EXTRA_WORD == <<"despr<U+221A><U+00A9>s">>
FAILING_LINE_LEMMA == <<"[??:30/1/-99999:??.??:??]">>
FAILING_LINE_TAG == <<"W">>
FAILING_LINE_SENSE == <<"0">>
FAILING_LINE ==
    FAILING_LINE_WORD \o <<SP>> \o FAILING_LINE_EXTRA_WORD \o <<SP>>
        \o FAILING_LINE_LEMMA \o <<SP>> \o FAILING_LINE_TAG \o <<SP>>
        \o FAILING_LINE_SENSE

FAILING_LINE_2 ==
    <<"2", "0", SP, "0", "0", "0", "_tones", SP, "WG_tm:20", SP, "Zu", SP, "0">>

FAILING_LINE_3 == <<"f">>

LINE_END_OF_ARTICLE == <<"ENDOFARTICLE", SP, "endofarticle", SP, "NP00000", SP, "0">>
LINE_DOC_TAG_CLOSE == <<"</doc>">>

LINE_FZ == <<"Fz", SP, "0">>
LINE_DOT == <<".", SP, ".", SP, "Fp", SP, "0">>
LINE_BLANK == <<>>

----------------------------------------------------------------------------
(* The line source *)

\* str.strip(): leading and trailing whitespace removed
RECURSIVE LStrip(_)
LStrip(s) == IF Len(s) > 0 /\ IsSpace(s[1]) THEN LStrip(Tail(s)) ELSE s

RECURSIVE RStrip(_)
RStrip(s) ==
    IF Len(s) > 0 /\ IsSpace(s[Len(s)]) THEN RStrip(SubSeq(s, 1, Len(s) - 1)) ELSE s

Strip(s) == RStrip(LStrip(s))

\* str.replace(chr(160), " ")
ReplaceNbsp(s) == [i \in 1..Len(s) |-> IF s[i] = NBSP THEN SP ELSE s[i]]

\* read_clean_line on a stream st of which p lines have been read: st[k] is
\* the text of the k-th line of the file without its line terminator, so
\* readline() returns '' exactly when no line is left.
read_clean_line(st, p) ==
    IF p >= Len(st) THEN None ELSE Str(ReplaceNbsp(Strip(st[p + 1])))

\* the stream position after one readline()
AfterRead(st, p) == IF p >= Len(st) THEN p ELSE p + 1

----------------------------------------------------------------------------
(* Decoding one line of a sentence: lines 139-180 of read_block *)

\* mutant: the sense is left out of the tuple
Token_SenseDropped(word, lemma, tag, sense) ==
    <<word, lemma, tag, [ty |-> "NoneType", v |-> <<>>]>>

Token(word, lemma, tag, sense) == <<word, lemma, tag, sense>>

\* lines 145-149: the first of the three patterns that matches
MatchWord(s) ==
    IF PATTERN_WORD(s) # NoMatch THEN PATTERN_WORD(s)
    ELSE IF PATTERN_WORD_DOUBLE(s) # NoMatch THEN PATTERN_WORD_DOUBLE(s)
    ELSE PATTERN_WORD_TRIPLE(s)

\* mutant: the corruption table is not consulted
Unparsable_NoTable(s) ==
    s # LINE_FZ /\ MatchWord(s) = NoMatch /\ s # FAILING_LINE_3

\* line 151: a line no pattern matches and that is not in the corruption table
Unparsable(s) ==
    /\ s # LINE_FZ
    /\ MatchWord(s) = NoMatch
    /\ s # FAILING_LINE /\ s # FAILING_LINE_2 /\ s # FAILING_LINE_3

\* The tokens appended to the sentence for the line s (lines 139-143, 162-180);
\* defined for the lines that are neither unparsable nor FAILING_LINE_3.
TokensOf(s) ==
    IF s = LINE_FZ
    THEN <<Token(Str(<<>>), Str(<<>>), Str(<<"Fz">>), PyInt(<<"0">>))>>
    ELSE IF s = FAILING_LINE
    THEN << Token(Str(FAILING_LINE_WORD), Str(FAILING_LINE_LEMMA),
                  Str(FAILING_LINE_TAG), Str(FAILING_LINE_SENSE)),
            Token(Str(FAILING_LINE_EXTRA_WORD), None, None, None) >>
    ELSE IF s = FAILING_LINE_2
    THEN <<Token(Str(<<"2", "0", "0", "0", "0", "_tones">>),
                 Str(<<"WG_tm:20000">>), Str(<<"Zu">>), Str(<<"0">>))>>
    ELSE LET m == MatchWord(s)
         IN  <<Token(Str(m[1]), Str(m[2]), Str(m[3]), Str(m[4]))>>

----------------------------------------------------------------------------
(* Documents *)

Document(id, title, db_index) ==
    [id |-> id, title |-> title, db_index |-> db_index, sents |-> <<>>]

\* the value of the local doc before the document is created
NoDoc == Document(None, None, None)

----------------------------------------------------------------------------
(* Input files *)

\* longest body, in lines, of the single-document files
MaxBody == 4
\* most segments (document blocks, stray closing tags) of a multi-document file
MaxSegs == 3
\* longest file of arbitrary lines
MaxJunk == 3
\* longest sentence of the files that hold every kind of token line
MaxToks == 2
\* longest body of the files that hold the known-corrupt lines
MaxCorrupt == 3
\* passes of the sentence loop explored once the sentences appended are as
\* many as the lines read (the loop that no longer reads is endless)
MaxIdle == 2

DocStartLine(id, title, db_index) ==
    DocStartOpen \o id \o DocStartTitle \o title
        \o DocStartNonfiltered \o <<"0">> \o DocStartProcessed \o <<"1">>
        \o DocStartDbindex \o db_index \o DocStartClose

\* <doc id="1" title="X" nonfiltered="0" processed="1" dbindex="5">
LINE_START_1 == DocStartLine(<<"1">>, <<"X">>, <<"5">>)
\* <doc id="2" title="Y z" nonfiltered="0" processed="1" dbindex="6">
LINE_START_2 == DocStartLine(<<"2">>, <<"Y", SP, "z">>, <<"6">>)

\* Hello hello NN 0
LINE_TOK_A == <<"Hello", SP, "hello", SP, "NN", SP, "0">>
\* world world NN 0, written with a no-break space and a trailing space
LINE_TOK_B == <<"world", NBSP, "world", SP, "NN", SP, "0", SP>>
\* New York new york NP 0
LINE_TOK_DOUBLE ==
    <<"New", SP, "York", SP, "new", SP, "york", SP, "NP", SP, "0">>
\* Rio de Janeiro rio de janeiro NP 0
LINE_TOK_TRIPLE ==
    <<"Rio", SP, "de", SP, "Janeiro", SP, "rio", SP, "de", SP, "janeiro", SP,
      "NP", SP, "0">>
\* a line with three fields only
LINE_BAD == <<"Hello", SP, "hello", SP, "NN">>
\* New York new 9york NP 0: six runs, the fourth starts with a digit
LINE_SIX_DIGIT == <<"New", SP, "York", SP, "new", SP, "9", "york", SP, "NP", SP, "0">>
\* Hello hello NN 0 extra: a four-field record and a fifth field
LINE_FIVE_FIELDS == <<"Hello", SP, "hello", SP, "NN", SP, "0", SP, "extra">>
\* Hello hello NN 0x: letters after the leading digit of the fourth field
LINE_SENSE_SUFFIX == <<"Hello", SP, "hello", SP, "NN", SP, "0", "x">>
\* a b Fz 0
LINE_FZ_RECORD == <<"a", SP, "b", SP, "Fz", SP, "0">>

Footer == <<LINE_END_OF_ARTICLE, LINE_DOT, LINE_BLANK, LINE_DOC_TAG_CLOSE>>

SeqsUpTo(S, n) == UNION {[1..k -> S] : k \in 0..n}

Prefixes(f) == {SubSeq(f, 1, k) : k \in 0..Len(f)}

BodyLines == {LINE_BLANK, LINE_TOK_A, LINE_TOK_B, FAILING_LINE_3, LINE_BAD}

\* a body ends with the footer, with a footer cut short, or with </doc> alone
Endings == Prefixes(Footer) \cup {<<LINE_DOC_TAG_CLOSE>>}

SingleDocFiles ==
    {<<LINE_START_1>> \o b \o e : b \in SeqsUpTo(BodyLines, MaxBody), e \in Endings}

FooterLines == {LINE_DOT, LINE_BLANK, LINE_DOC_TAG_CLOSE, LINE_TOK_A}

\* an end-of-article line followed by any three lines or fewer
FooterFiles ==
    {<<LINE_START_1>> \o b \o <<LINE_END_OF_ARTICLE>> \o f :
        b \in {<<>>, <<LINE_TOK_A>>}, f \in SeqsUpTo(FooterLines, 3)}

SegTwoSents ==
    <<LINE_START_1, LINE_TOK_A, LINE_TOK_B, LINE_BLANK, LINE_TOK_B>> \o Footer
SegTrailingBlank == <<LINE_START_2, LINE_TOK_B, LINE_BLANK>> \o Footer
SegSkip ==
    <<LINE_START_1, LINE_TOK_A, LINE_BLANK, FAILING_LINE_3, LINE_BLANK, LINE_TOK_B>>
        \o Footer
SegCloseOnly == <<LINE_START_2, LINE_TOK_A, LINE_DOC_TAG_CLOSE>>
SegDupClose == <<LINE_BLANK, LINE_DOC_TAG_CLOSE>>

Segments == {SegTwoSents, SegTrailingBlank, SegSkip, SegCloseOnly, SegDupClose}

RECURSIVE Concat(_)
Concat(ss) == IF ss = <<>> THEN <<>> ELSE Head(ss) \o Concat(Tail(ss))

\* files of several segments, whole or cut at a line boundary
MultiDocFiles ==
    UNION {Prefixes(Concat(ss)) : ss \in SeqsUpTo(Segments, MaxSegs)}

AllLines ==
    {LINE_START_1, LINE_BLANK, LINE_END_OF_ARTICLE, LINE_DOC_TAG_CLOSE, LINE_DOT,
     LINE_TOK_A, LINE_TOK_B, FAILING_LINE_3, LINE_BAD, FAILING_LINE,
     FAILING_LINE_2, LINE_FZ}

JunkFiles == SeqsUpTo(AllLines, MaxJunk)

TokenLines ==
    {LINE_TOK_A, LINE_TOK_B, LINE_TOK_DOUBLE, LINE_TOK_TRIPLE, LINE_FZ, LINE_DOT,
     FAILING_LINE, FAILING_LINE_2, LINE_SIX_DIGIT, LINE_FIVE_FIELDS,
     LINE_SENSE_SUFFIX, LINE_FZ_RECORD}

\* one sentence of lines of every kind that yields tokens
TokenFiles ==
    {<<LINE_START_2>> \o t \o Footer : t \in SeqsUpTo(TokenLines, MaxToks)}

CorruptLines == {LINE_BLANK, LINE_TOK_A, FAILING_LINE, FAILING_LINE_2}

\* bodies that hold the known-corrupt lines among other token lines
CorruptFiles ==
    {<<LINE_START_2>> \o b \o Footer : b \in SeqsUpTo(CorruptLines, MaxCorrupt)}

Inputs ==
    SingleDocFiles \cup FooterFiles \cup MultiDocFiles \cup JunkFiles \cup TokenFiles
        \cup CorruptFiles

----------------------------------------------------------------------------
(* State *)

VARIABLES
    stream,   \* the lines of the file
    pos,      \* lines read so far: the position of the stream
    filepos,  \* the position at which the current invocation started
    calls,    \* invocations of read_block started so far
    pc,       \* where control is
    line,     \* read_block's local line
    doc,      \* read_block's local doc
    sent,     \* read_block's local sent
    ret,      \* the value returned by the last finished invocation
    exc,      \* the exception that ended the iteration, "" when none
    out,      \* the documents yielded so far, in order
    first     \* the outcome of the first iteration of the file, once it is
              \* iterated again

vars == <<stream, pos, filepos, calls, pc, line, doc, sent, ret, exc, out, first>>

\* no earlier iteration of the file
NoOutcome == <<>>

Init ==
    /\ stream \in Inputs
    /\ pos = 0
    /\ filepos = 0
    /\ calls = 0
    /\ pc = "idle"
    /\ line = None
    /\ doc = NoDoc
    /\ sent = <<>>
    /\ ret = <<>>
    /\ exc = ""
    /\ out = <<>>
    /\ first = NoOutcome

\* return value: the locals die, the caller yields the documents
Return(value, p) ==
    /\ pc' = "idle"
    /\ pos' = p
    /\ ret' = value
    /\ out' = out \o value
    /\ line' = None /\ doc' = NoDoc /\ sent' = <<>>
    /\ exc' = ""
    /\ UNCHANGED <<stream, filepos, calls, first>>

\* raise: the exception leaves read_block and ends the iteration of the file
Raise(name, p) ==
    /\ pc' = "raised"
    /\ pos' = p
    /\ exc' = name
    /\ ret' = <<>>
    /\ line' = None /\ doc' = NoDoc /\ sent' = <<>>
    /\ UNCHANGED <<stream, filepos, calls, out, first>>

\* The caller invokes read_block again as long as the stream is not exhausted,
\* so the first read of an invocation never meets the end of the stream.
MoreToRead == pc = "idle" /\ pos < Len(stream)

\* mutant: the line after the blank first line is looked at but not consumed
DupClosePos_NotConsumed(st, p) == p

\* line 123: the position after the line that follows a blank first line
DupClosePos(st, p) == AfterRead(st, p)

\* mutant: every first line that is no start marker is handled as a blank one
IsBlankFirstLine_Any(l) == TRUE

\* line 121: the first line is empty
IsBlankFirstLine(l) == l = Str(<<>>)

\* lines 117-134: the first line of the block
ReadBlockStart ==
    /\ MoreToRead
    /\ filepos' = pos
    /\ calls' = calls + 1
    /\ UNCHANGED <<stream, sent, out, first>>
    /\ LET l1 == read_clean_line(stream, pos)
           p1 == AfterRead(stream, pos)
           match == PATTERN_DOC_START(l1.v)
       IN  IF match = NoMatch
           THEN /\ UNCHANGED <<line, doc>>
                /\ ret' = <<>>
                /\ IF IsBlankFirstLine(l1)
                   THEN /\ pos' = DupClosePos(stream, p1)
                        /\ IF read_clean_line(stream, p1) = Str(LINE_DOC_TAG_CLOSE)
                           THEN pc' = "idle" /\ exc' = ""
                           ELSE pc' = "raised" /\ exc' = "AssertionError"
                   ELSE /\ pos' = p1
                        /\ pc' = "raised"
                        /\ exc' = "ValueError"
           ELSE /\ doc' = Document(Str(match[1]), Str(match[2]), Str(match[3]))
                /\ line' = read_clean_line(stream, p1)
                /\ pos' = AfterRead(stream, p1)
                /\ pc' = "outer"
                /\ UNCHANGED <<ret, exc>>

\* line 135: the test of the sentence loop
SentenceLoopTest(l) ==
    l # None /\ l # Str(LINE_END_OF_ARTICLE) /\ l # Str(LINE_DOC_TAG_CLOSE)

\* line 138: the test of the token loop
TokenLoopTest(l) ==
    /\ l # None /\ l # Str(<<>>)
    /\ l # Str(LINE_END_OF_ARTICLE) /\ l # Str(LINE_DOC_TAG_CLOSE)

\* lines 135-136
OuterTest ==
    /\ pc = "outer"
    /\ IF SentenceLoopTest(line)
       THEN sent' = <<>> /\ pc' = "inner"
       ELSE pc' = "footer" /\ UNCHANGED sent
    /\ UNCHANGED <<stream, pos, filepos, calls, line, doc, ret, exc, out, first>>

\* mutant: every unparsable line is taken for the end of a cut file
NextLineMissing_Always(st, p) == TRUE

\* lines 152-153: next_line is None, the file ends after the unparsable line
NextLineMissing(st, p) == read_clean_line(st, p) = None

\* lines 138-182: the test of the token loop and one pass of its body
InnerStep ==
    /\ pc = "inner"
    /\ UNCHANGED first
    /\ IF ~TokenLoopTest(line)
       THEN /\ pc' = "after_inner"
            /\ UNCHANGED <<stream, pos, filepos, calls, line, doc, sent, ret, exc, out>>
       ELSE IF Unparsable(line.v)
       THEN \* lines 152-160: one more line is read to tell a cut file from an error
            IF NextLineMissing(stream, pos)
            THEN /\ pc' = "after_inner"
                 /\ pos' = AfterRead(stream, pos)
                 /\ UNCHANGED <<stream, filepos, calls, line, doc, sent, ret, exc, out>>
            ELSE Raise("ValueError", AfterRead(stream, pos))
       ELSE IF line.v = FAILING_LINE_3
       THEN \* line 173
            /\ pc' = "after_inner"
            /\ UNCHANGED <<stream, pos, filepos, calls, line, doc, sent, ret, exc, out>>
       ELSE /\ sent' = sent \o TokensOf(line.v)
            /\ line' = read_clean_line(stream, pos)
            /\ pos' = AfterRead(stream, pos)
            /\ pc' = "inner"
            /\ UNCHANGED <<stream, filepos, calls, doc, ret, exc, out>>

\* mutant: the sentence in progress at the end of the stream is dropped too
SkipSentence_AlsoAtEof(l) == l = Str(FAILING_LINE_3) \/ l = None

\* line 184: the sentence loop is left without appending the sentence
SkipSentence(l) == l = Str(FAILING_LINE_3)

\* mutant: the sentence is put in front of the earlier ones
AppendSentence_Prepends(sents, s) == <<s>> \o sents

\* mutant: the list of sentences is one list shared by all Documents, so a new
\* Document starts from the sentences of the Document returned before it
AppendSentence_SharedList(sents, s) ==
    IF sents = <<>> /\ ret # <<>> THEN Append(ret[1].sents, s) ELSE Append(sents, s)

\* line 187: doc.sents.append(sent)
AppendSentence(sents, s) == Append(sents, s)

\* lines 184-192: the end of one pass of the sentence loop.  After the break
\* of line 157 line still holds the unparsable line: the loop goes on without
\* reading, one empty sentence a pass, without end.
AfterInner ==
    /\ pc = "after_inner"
    /\ IF SkipSentence(line)
       THEN /\ pc' = "footer"
            /\ UNCHANGED <<pos, line, doc>>
       ELSE /\ doc' = [doc EXCEPT !.sents = AppendSentence(@, sent)]
            /\ IF line = Str(<<>>)
               THEN /\ line' = read_clean_line(stream, pos)
                    /\ pos' = AfterRead(stream, pos)
                    /\ pc' = "outer"
               ELSE IF line = None
               THEN /\ pc' = "footer"
                    /\ UNCHANGED <<line, pos>>
               ELSE /\ pc' = "outer"
                    /\ UNCHANGED <<line, pos>>
    /\ UNCHANGED <<stream, filepos, calls, sent, ret, exc, out, first>>

\* mutant: the closing tag after the blank line is not read
ReadFooter_NoClose(st, p) ==
    LET p1 == AfterRead(st, p)
        p2 == AfterRead(st, p1)
    IN  IF read_clean_line(st, p) # Str(LINE_DOT) THEN [ok |-> FALSE, pos |-> p1]
        ELSE IF read_clean_line(st, p1) # Str(<<>>) THEN [ok |-> FALSE, pos |-> p2]
        ELSE [ok |-> TRUE, pos |-> p2]

\* mutant: the end of the stream inside the footer is accepted
ReadFooter_ToleratesEof(st, p) ==
    LET p1 == AfterRead(st, p)
        p2 == AfterRead(st, p1)
        p3 == AfterRead(st, p2)
        okAt(q, l) == read_clean_line(st, q) \in {None, Str(l)}
    IN  IF ~okAt(p, LINE_DOT) THEN [ok |-> FALSE, pos |-> p1]
        ELSE IF ~okAt(p1, <<>>) THEN [ok |-> FALSE, pos |-> p2]
        ELSE IF ~okAt(p2, LINE_DOC_TAG_CLOSE) THEN [ok |-> FALSE, pos |-> p3]
        ELSE [ok |-> TRUE, pos |-> p3]

\* mutant: the line after '. . Fp 0' is not checked
ReadFooter_AnySecondLine(st, p) ==
    LET p1 == AfterRead(st, p)
        p2 == AfterRead(st, p1)
        p3 == AfterRead(st, p2)
    IN  IF read_clean_line(st, p) # Str(LINE_DOT) THEN [ok |-> FALSE, pos |-> p1]
        ELSE IF read_clean_line(st, p2) # Str(LINE_DOC_TAG_CLOSE)
        THEN [ok |-> FALSE, pos |-> p3]
        ELSE [ok |-> TRUE, pos |-> p3]

\* lines 195-202: the three lines after the end-of-article line, read from
\* position p.  ok: the three assertions hold; pos: the position after the
\* last line read.  The assert statements are executed, as they are unless
\* the interpreter runs with -O.
ReadFooter(st, p) ==
    LET p1 == AfterRead(st, p)
        p2 == AfterRead(st, p1)
        p3 == AfterRead(st, p2)
    IN  IF read_clean_line(st, p) # Str(LINE_DOT) THEN [ok |-> FALSE, pos |-> p1]
        ELSE IF read_clean_line(st, p1) # Str(<<>>) THEN [ok |-> FALSE, pos |-> p2]
        ELSE IF read_clean_line(st, p2) # Str(LINE_DOC_TAG_CLOSE)
        THEN [ok |-> FALSE, pos |-> p3]
        ELSE [ok |-> TRUE, pos |-> p3]

\* mutant: the footer is read after </doc> as well
FooterExpected_AlsoAfterClose(l) ==
    l = Str(LINE_END_OF_ARTICLE) \/ l = Str(LINE_DOC_TAG_CLOSE)

\* line 194: the sentence loop ended on the end-of-article line
FooterExpected(l) == l = Str(LINE_END_OF_ARTICLE)

\* lines 194-204: the footer and the return
FooterStep ==
    /\ pc = "footer"
    /\ IF FooterExpected(line)
       THEN LET f == ReadFooter(stream, pos)
            IN  IF f.ok THEN Return(<<doc>>, f.pos)
                ELSE Raise("AssertionError", f.pos)
       ELSE Return(<<doc>>, pos)

Next == ReadBlockStart \/ OuterTest \/ InnerStep \/ AfterInner \/ FooterStep

\* the program: on a file that ends right after an unparsable line its
\* behaviours are infinite and doc.sents grows without bound
Spec == Init /\ [][Next]_vars

\* The part of the state space that is explored.  The passes of the sentence
\* loop are followed while the sentences appended are fewer than the lines
\* read plus MaxIdle.  After a read they are fewer than the lines read, so
\* only the endless loop is cut, MaxIdle passes into it: every behaviour in
\* which read_block returns or raises is explored whole.
IdleBound == Len(doc.sents) < (pos - filepos) + MaxIdle

AfterInnerBounded == IdleBound /\ AfterInner

NextBounded ==
    ReadBlockStart \/ OuterTest \/ InnerStep \/ AfterInnerBounded \/ FooterStep

SpecBounded == Init /\ [][NextBounded]_vars

\* the iteration of the file is over: the stream is exhausted or an exception
\* ended it
Terminal == pc = "raised" \/ (pc = "idle" /\ pos = Len(stream))

\* what an iteration of the file produced: the documents yielded, the
\* exception that ended it, the invocations made and the lines read
Outcome == <<out, exc, calls, pos>>

\* The file is iterated a second time: it is opened again and read from its
\* start.  The documents yielded the first time stay with their consumer.
Reopen ==
    /\ Terminal
    /\ first = NoOutcome
    /\ first' = <<Outcome>>
    /\ pos' = 0 /\ filepos' = 0 /\ calls' = 0
    /\ pc' = "idle"
    /\ exc' = ""
    /\ out' = <<>>
    /\ UNCHANGED <<stream, line, doc, sent, ret>>

NextTwice == Next \/ Reopen

\* every file is iterated twice
SpecTwice == Init /\ [][NextTwice]_vars

NextTwiceBounded == NextBounded \/ Reopen

\* the explored part of SpecTwice
SpecTwiceBounded == Init /\ [][NextTwiceBounded]_vars

----------------------------------------------------------------------------
(* The format, as the specification describes it *)

Clean(raw) == ReplaceNbsp(Strip(raw))

\* the lines after position p up to position q, as the parser sees them
CleanLines(st, p, q) == [i \in 1..(q - p) |-> Clean(st[p + i])]

IsStartLine(s) == PATTERN_DOC_START(s) # NoMatch

\* a token line: a line one of the grammars (rules 1 to 4) decodes
IsTokenLine(s) ==
    /\ s # <<>> /\ s # LINE_END_OF_ARTICLE /\ s # LINE_DOC_TAG_CLOSE
    /\ (s = LINE_FZ \/ PATTERN_WORD(s) # NoMatch \/ PATTERN_WORD_DOUBLE(s) # NoMatch
            \/ PATTERN_WORD_TRIPLE(s) # NoMatch)

\* a line of a sentence block: a token line or, when skip is allowed, the
\* line 'f'
IsBodyLine(s, allowSkip) == IsTokenLine(s) \/ (allowSkip /\ s = FAILING_LINE_3)

\* sentence blocks separated by single blank lines; the last block may be
\* followed by one blank line, as in the specification's example
WellFormedBodyWith(ls, allowSkip) ==
    /\ \A i \in 1..Len(ls) : ls[i] = <<>> \/ IsBodyLine(ls[i], allowSkip)
    /\ Len(ls) > 0 => ls[1] # <<>>
    /\ \A i \in 1..(Len(ls) - 1) : ~(ls[i] = <<>> /\ ls[i + 1] = <<>>)

WellFormedBody(ls) == WellFormedBodyWith(ls, FALSE)

\* index of the first blank line of ls, Len(ls) + 1 when it has none
RECURSIVE FirstBlank(_, _)
FirstBlank(ls, i) ==
    IF i > Len(ls) \/ ls[i] = <<>> THEN i ELSE FirstBlank(ls, i + 1)

\* the lines of ls grouped by the blank lines that separate them
RECURSIVE Groups(_)
Groups(ls) ==
    IF ls = <<>> THEN <<>>
    ELSE LET k == FirstBlank(ls, 1)
         IN  <<SubSeq(ls, 1, k - 1)>> \o Groups(SubSeq(ls, k + 1, Len(ls)))

\* the tokens of a group of token lines, in order
RECURSIVE GroupTokens(_)
GroupTokens(g) ==
    IF g = <<>> THEN <<>> ELSE TokensOf(Head(g)) \o GroupTokens(Tail(g))

ExpectedSents(ls) == [i \in 1..Len(Groups(ls)) |-> GroupTokens(Groups(ls)[i])]

\* the document of a start line and a body
ExpectedDoc(start, body) ==
    LET m == PATTERN_DOC_START(start)
    IN  [id |-> Str(m[1]), title |-> Str(m[2]), db_index |-> Str(m[3]),
         sents |-> ExpectedSents(body)]

\* index of the first </doc> line after position p, 0 when there is none
RECURSIVE CloseIndex(_, _)
CloseIndex(st, p) ==
    IF p >= Len(st) THEN 0
    ELSE IF Clean(st[p + 1]) = LINE_DOC_TAG_CLOSE THEN p + 1
    ELSE CloseIndex(st, p + 1)

\* a document block starts after position p: start line, body,
\* end-of-article line, '. . Fp 0', blank line, </doc>
WellFormedBlockWith(st, p, allowSkip) ==
    LET k == CloseIndex(st, p)
    IN  /\ k >= p + 5
        /\ IsStartLine(Clean(st[p + 1]))
        /\ CleanLines(st, k - 4, k) = Footer
        /\ WellFormedBodyWith(CleanLines(st, p + 1, k - 4), allowSkip)

WellFormedBlockAt(st, p) == WellFormedBlockWith(st, p, FALSE)

\* the file is document blocks from position p to its end
RECURSIVE WellFormedFrom(_, _, _)
WellFormedFrom(st, p, allowSkip) ==
    IF p >= Len(st) THEN TRUE
    ELSE /\ WellFormedBlockWith(st, p, allowSkip)
         /\ WellFormedFrom(st, CloseIndex(st, p), allowSkip)

\* the positions at which the blocks of such a file start, from p to q
RECURSIVE BlockStarts(_, _, _)
BlockStarts(st, p, q) ==
    IF p >= q THEN <<>> ELSE <<p>> \o BlockStarts(st, CloseIndex(st, p), q)

BlockBody(st, p) == CleanLines(st, p + 1, CloseIndex(st, p) - 4)

\* the sentences of a body whose blocks holding the line 'f' are left out
KeptGroups(ls) ==
    SelectSeq(Groups(ls), LAMBDA g : \A i \in 1..Len(g) : g[i] # FAILING_LINE_3)

ExpectedSentsSkipping(ls) ==
    [i \in 1..Len(KeptGroups(ls)) |-> GroupTokens(KeptGroups(ls)[i])]

\* the documents of the blocks of a well-formed file that start in p..q-1
ExpectedDocs(st, p, q) ==
    LET b == BlockStarts(st, p, q)
    IN  [i \in 1..Len(b) |->
            ExpectedDoc(Clean(st[b[i] + 1]), BlockBody(st, b[i]))]

HasSkipLine(ls) == \E i \in 1..Len(ls) : ls[i] = FAILING_LINE_3

SkipLineCount(st) == Cardinality({i \in 1..Len(st) : Clean(st[i]) = FAILING_LINE_3})

\* the file ends inside the body of the block that starts after position p
CutInBody(st, p) ==
    /\ p < Len(st)
    /\ IsStartLine(Clean(st[p + 1]))
    /\ WellFormedBody(CleanLines(st, p + 1, Len(st)))

\* the file ends after the end-of-article line of the block that starts
\* after position p, before its </doc>: e lines of the footer are there
CutInFooterAfter(st, p, e) ==
    /\ Len(st) >= p + 1 + e
    /\ IsStartLine(Clean(st[p + 1]))
    /\ WellFormedBody(CleanLines(st, p + 1, Len(st) - e))
    /\ CleanLines(st, Len(st) - e, Len(st)) = SubSeq(Footer, 1, e)

CutInFooter(st, p) == \E e \in 1..3 : CutInFooterAfter(st, p, e)

\* the body of the cut block that starts after position p
CutBody(st, p) ==
    IF CutInBody(st, p) THEN CleanLines(st, p + 1, Len(st))
    ELSE LET e == CHOOSE x \in 1..3 : CutInFooterAfter(st, p, x)
         IN  CleanLines(st, p + 1, Len(st) - e)

\* the file ends in the middle of a sentence of that block
CutInSentence(st, p) ==
    /\ CutInBody(st, p)
    /\ Len(st) >= p + 2
    /\ Clean(st[Len(st)]) # <<>>

\* a blank line and </doc> follow position p
DupCloseAt(st, p) ==
    /\ Len(st) >= p + 2
    /\ Clean(st[p + 1]) = <<>>
    /\ Clean(st[p + 2]) = LINE_DOC_TAG_CLOSE

\* a line of a body that no grammar decodes, that is not in the corruption
\* table and that is not the line 'f'
IsUnparsableLine(s) ==
    /\ s # <<>> /\ s # LINE_END_OF_ARTICLE /\ s # LINE_DOC_TAG_CLOSE
    /\ ~IsTokenLine(s)
    /\ s \notin {FAILING_LINE, FAILING_LINE_2, FAILING_LINE_3}

InInvocation == pc \in {"outer", "inner", "after_inner", "footer"}

\* the current invocation is over: it returned or it raised
Finished == calls > 0 /\ pc \in {"idle", "raised"}

----------------------------------------------------------------------------
(* Claims *)

\* C1: for every well-formed document block, the invocation that starts at it
\* returns exactly one Document, with the id, title and db_index captured from
\* the start line and with the token lines of the body grouped by the blank
\* lines as its sentences, in input order.
C1_WellFormedBlock ==
    (Finished /\ WellFormedBlockAt(stream, filepos)) =>
        /\ pc = "idle"
        /\ ret = <<ExpectedDoc(Clean(stream[filepos + 1]), BlockBody(stream, filepos))>>

\* C1 witness: a well-formed block of two sentences, one of them of two
\* tokens, has been parsed.
C1_Witness ==
    /\ Finished /\ WellFormedBlockAt(stream, filepos)
    /\ Len(ret) = 1
    /\ Len(ret[1].sents) = 2
    /\ Len(ret[1].sents[1]) = 2
    /\ ret[1].sents[1][1] # ret[1].sents[1][2]
    /\ ret[1].id = Str(<<"1">>) /\ ret[1].title = Str(<<"X">>)
    /\ ret[1].db_index = Str(<<"5">>)

\* C2: one invocation ends after finitely many steps: every pass of the
\* sentence loop reads a line, so the passes completed (one sentence appended
\* each) stay fewer than the lines the invocation has read.
C2_SentenceLoopReadsLines ==
    InInvocation => Len(doc.sents) < pos - filepos

\* C3: when an unparsable line is met in a body and the next read is the end
\* of the stream, the sentence loop ends and the invocation goes on to return
\* the Document with what had been collected.
C3_TruncatedParseErrorReturns ==
    [][(pc = "after_inner" /\ TokenLoopTest(line) /\ Unparsable(line.v)) =>
          /\ pc' = "footer"
          /\ doc'.sents \in {doc.sents, Append(doc.sents, sent)}]_vars

\* C4: when a sentence block of a document holds the line 'f', the returned
\* Document leaves that sentence out and holds, in order, every sentence
\* before it and every sentence after it.
C4_SkipKeepsOtherSentences ==
    (/\ Finished
     /\ WellFormedBlockWith(stream, filepos, TRUE)
     /\ HasSkipLine(BlockBody(stream, filepos))) =>
        /\ pc = "idle"
        /\ Len(ret) = 1
        /\ ret[1].sents = ExpectedSentsSkipping(BlockBody(stream, filepos))

\* C5: for a file that is well-formed except that one sentence block holds the
\* line 'f', the invocations never raise, each one starts at a document-start
\* line, and when the stream is exhausted one Document per block was yielded.
C5_SkipAbsorbed ==
    (WellFormedFrom(stream, 0, TRUE) /\ SkipLineCount(stream) = 1) =>
        /\ pc # "raised"
        /\ calls > 0 => IsStartLine(Clean(stream[filepos + 1]))
        /\ (pc = "idle" /\ pos = Len(stream)) =>
               Len(out) = Len(BlockStarts(stream, 0, Len(stream)))

\* C6: for a file of N well-formed blocks no invocation raises, every
\* invocation starts at the start line of a block and ends right after the
\* </doc> of the same block, and the Documents yielded are those of the blocks
\* read so far, in file order: N of them when the stream is exhausted.
C6_WellFormedFile ==
    WellFormedFrom(stream, 0, FALSE) =>
        /\ pc # "raised"
        /\ calls > 0 =>
              /\ \E i \in 1..calls :
                    /\ i <= Len(BlockStarts(stream, 0, Len(stream)))
                    /\ BlockStarts(stream, 0, Len(stream))[i] = filepos
              /\ pos <= CloseIndex(stream, filepos)
              /\ pc = "idle" => pos = CloseIndex(stream, filepos)
        /\ pc = "idle" =>
              /\ Len(out) = calls
              /\ out = ExpectedDocs(stream, 0, pos)

\* C6 witness: a file of two or more well-formed blocks has been read to its
\* end and the Documents of its first two blocks differ.
C6_Witness ==
    /\ WellFormedFrom(stream, 0, FALSE)
    /\ pc = "idle" /\ pos = Len(stream)
    /\ Len(out) >= 2
    /\ out[1] # out[2]

\* C7 (as the code has it): when the end of the stream is reached in the
\* middle of a sentence, the returned Document holds every earlier sentence
\* and, as its last sentence, the tokens of the sentence in progress.
C7_CutSentenceKept ==
    (Finished /\ CutInSentence(stream, filepos)) =>
        /\ pc = "idle"
        /\ ret = <<ExpectedDoc(Clean(stream[filepos + 1]), CutBody(stream, filepos))>>

\* C7 witness: a Document was returned for a body cut in its second sentence.
C7_Witness ==
    /\ Finished /\ CutInSentence(stream, filepos)
    /\ Len(ret) = 1
    /\ Len(ret[1].sents) = 2
    /\ Len(ret[1].sents[2]) >= 1

\* C7 as claimed: the returned Document holds every earlier complete sentence
\* and not the sentence in progress.
C7_CutSentenceDropped ==
    (Finished /\ CutInSentence(stream, filepos)) =>
        /\ pc = "idle"
        /\ Len(ret) = 1
        /\ LET all == ExpectedSents(CutBody(stream, filepos))
           IN  ret[1].sents = SubSeq(all, 1, Len(all) - 1)

\* C8 (as the code has it): a file cut inside the body of a block makes the
\* invocation return the Document collected so far; a file cut right after
\* the end-of-article line or inside the three footer lines makes it raise
\* AssertionError and return no Document.
C8_CutInBodyReturnsCutInFooterRaises ==
    Finished =>
        /\ CutInBody(stream, filepos) =>
              /\ pc = "idle"
              /\ ret = <<ExpectedDoc(Clean(stream[filepos + 1]),
                                     CutBody(stream, filepos))>>
        /\ CutInFooter(stream, filepos) =>
              /\ pc = "raised"
              /\ exc = "AssertionError"
              /\ ret = <<>>

\* C8 witness: the second block of a file is cut after a blank line of its
\* body and the Document collected so far was returned.
C8_Witness ==
    /\ Finished /\ CutInBody(stream, filepos)
    /\ filepos > 0
    /\ Clean(stream[Len(stream)]) = <<>>
    /\ Len(ret) = 1
    /\ Len(ret[1].sents) >= 1

\* C8 as claimed: wherever the file is cut after the start line, the body and
\* the footer included, the invocation raises nothing and returns the
\* Document collected so far.
C8_TruncationNeverRaises ==
    (Finished /\ (CutInBody(stream, filepos) \/ CutInFooter(stream, filepos))) =>
        /\ pc = "idle"
        /\ ret = <<ExpectedDoc(Clean(stream[filepos + 1]), CutBody(stream, filepos))>>

\* C9: when the token loop holds an unparsable line and a further line
\* follows it in the stream, the invocation raises ValueError and returns
\* nothing: no Document is yielded for the block.
C9_UnparsableLineRaises ==
    [][(/\ pc = "inner"
        /\ TokenLoopTest(line)
        /\ IsUnparsableLine(line.v)
        /\ pos < Len(stream)) =>
          /\ pc' = "raised"
          /\ exc' = "ValueError"
          /\ ret' = <<>>
          /\ out' = out]_vars

\* C9 witness: ValueError was raised on an unparsable line met after a
\* complete sentence of the document.
C9_Witness ==
    /\ pc = "raised" /\ exc = "ValueError"
    /\ IsStartLine(Clean(stream[filepos + 1]))
    /\ pos >= filepos + 5
    /\ IsUnparsableLine(Clean(stream[pos - 1]))
    /\ IsTokenLine(Clean(stream[filepos + 2]))
    /\ Clean(stream[filepos + 3]) = <<>>

\* C10: an invocation that reads a blank line followed by </doc> returns no
\* Document, raises nothing and has consumed exactly those two lines; the
\* next invocation starts right after them and parses the block that follows.
C10_DuplicateClose ==
    /\ (Finished /\ DupCloseAt(stream, filepos)) =>
          /\ pc = "idle"
          /\ ret = <<>>
          /\ pos = filepos + 2
          /\ Len(out) < calls
    /\ (/\ Finished /\ calls = 2
        /\ DupCloseAt(stream, 0) /\ WellFormedBlockAt(stream, 2)) =>
          /\ filepos = 2
          /\ pc = "idle"
          /\ ret = <<ExpectedDoc(Clean(stream[3]), BlockBody(stream, 2))>>

\* C10 witness: after a blank line and </doc> at the head of the file, the
\* second invocation returned the Document of the block that follows.
C10_Witness ==
    /\ Finished /\ calls = 2
    /\ DupCloseAt(stream, 0) /\ WellFormedBlockAt(stream, 2)
    /\ filepos = 2
    /\ Len(ret) = 1
    /\ out = ret

\* C11: when the sentence loop has ended on the end-of-article line, the
\* invocation returns the Document only if the next three lines are
\* '. . Fp 0', a blank line and </doc>, in this order; for every other
\* continuation, the end of the stream included, it raises AssertionError and
\* returns no Document.
C11_FooterStrict ==
    [][(pc = "footer" /\ line = Str(LINE_END_OF_ARTICLE)) =>
          IF /\ pos + 3 <= Len(stream)
             /\ CleanLines(stream, pos, pos + 3)
                    = <<LINE_DOT, LINE_BLANK, LINE_DOC_TAG_CLOSE>>
          THEN /\ pc' = "idle"
               /\ ret' = <<doc>>
               /\ out' = Append(out, doc)
               /\ pos' = pos + 3
          ELSE /\ pc' = "raised"
               /\ exc' = "AssertionError"
               /\ ret' = <<>>
               /\ out' = out]_vars

\* C11 witness: after the end-of-article line came '. . Fp 0', a blank line
\* and a line that is not </doc>, and the invocation raised.
C11_Witness ==
    /\ pc = "raised" /\ exc = "AssertionError"
    /\ pos >= filepos + 5
    /\ IsStartLine(Clean(stream[filepos + 1]))
    /\ Clean(stream[pos - 3]) = LINE_END_OF_ARTICLE
    /\ Clean(stream[pos - 2]) = LINE_DOT
    /\ Clean(stream[pos - 1]) = <<>>
    /\ Clean(stream[pos]) # LINE_DOC_TAG_CLOSE

\* the corrected tokens of the known-corruption table
DateToken ==
    <<Str(<<"3", "0", "_de_gener_de_1994">>), Str(<<"[??:30/1/-99999:??.??:??]">>),
      Str(<<"W">>), Str(<<"0">>)>>
ExtraWordToken == <<Str(<<"despr<U+221A><U+00A9>s">>), None, None, None>>
TonesToken ==
    <<Str(<<"2", "0", "0", "0", "0", "_tones">>), Str(<<"WG_tm:20000">>),
      Str(<<"Zu">>), Str(<<"0">>)>>

IsCorruptLine(s) == s = FAILING_LINE \/ s = FAILING_LINE_2

\* the tokens a line of a sentence stands for, the table applied
CorrectedTokens(s) ==
    IF s = FAILING_LINE THEN <<DateToken, ExtraWordToken>>
    ELSE IF s = FAILING_LINE_2 THEN <<TonesToken>>
    ELSE TokensOf(s)

RECURSIVE CorrectedGroupTokens(_)
CorrectedGroupTokens(g) ==
    IF g = <<>> THEN <<>>
    ELSE CorrectedTokens(Head(g)) \o CorrectedGroupTokens(Tail(g))

CorrectedSents(ls) ==
    [i \in 1..Len(Groups(ls)) |-> CorrectedGroupTokens(Groups(ls)[i])]

\* a block that is well-formed but for known-corrupt lines in its sentences
CorruptBlockAt(st, p) ==
    LET k == CloseIndex(st, p)
        body == CleanLines(st, p + 1, k - 4)
    IN  /\ k >= p + 5
        /\ IsStartLine(Clean(st[p + 1]))
        /\ CleanLines(st, k - 4, k) = Footer
        /\ \A i \in 1..Len(body) :
              body[i] = <<>> \/ IsTokenLine(body[i]) \/ IsCorruptLine(body[i])
        /\ \E i \in 1..Len(body) : IsCorruptLine(body[i])
        /\ body[1] # <<>>
        /\ \A i \in 1..(Len(body) - 1) : ~(body[i] = <<>> /\ body[i + 1] = <<>>)

\* C12: inside a sentence the known-corrupt date line yields the date token
\* (date word, bracket lemma, 'W', '0') and right after it the synthetic
\* token (mangled word, None, None, None), and '20 000_tones WG_tm:20 Zu 0'
\* yields the one token ('20000_tones', 'WG_tm:20000', 'Zu', '0'); the tokens
\* of the other lines of the sentence are as without them and nothing is
\* raised.
C12_CorruptLinesCorrected ==
    (Finished /\ CorruptBlockAt(stream, filepos)) =>
        /\ pc = "idle"
        /\ Len(ret) = 1
        /\ ret[1].sents = CorrectedSents(BlockBody(stream, filepos))

\* C12 witness: a sentence of a token line, the date line and the tones line
\* was returned as four tokens.
C12_Witness ==
    /\ Finished /\ CorruptBlockAt(stream, filepos)
    /\ Len(ret) = 1
    /\ Len(ret[1].sents) = 1
    /\ Len(ret[1].sents[1]) = 4
    /\ ret[1].sents[1][1] = TokensOf(LINE_TOK_A)[1]
    /\ ret[1].sents[1][2] = DateToken
    /\ ret[1].sents[1][3] = ExtraWordToken
    /\ ret[1].sents[1][4] = TonesToken

\* C13: no Document returned by read_block holds an empty sentence, whatever
\* the input: two blank lines in a row, a blank line right after the start
\* line, a cut file.
C13_NoEmptySentence ==
    \A d \in 1..Len(out) : \A j \in 1..Len(out[d].sents) : out[d].sents[j] # <<>>

\* C14: when the first line an invocation reads is neither a start line nor
\* a blank line followed by </doc>, the invocation raises and returns no
\* Document: ValueError for a non-blank line, AssertionError for a blank line
\* followed by anything else, the end of the stream included.
C14_BadFirstLineRaises ==
    (/\ Finished
     /\ ~IsStartLine(Clean(stream[filepos + 1]))
     /\ ~DupCloseAt(stream, filepos)) =>
        /\ pc = "raised"
        /\ ret = <<>>
        /\ Len(out) < calls
        /\ exc = IF Clean(stream[filepos + 1]) = <<>>
                 THEN "AssertionError" ELSE "ValueError"

\* C14 witness: after a first block, an invocation read a blank line that is
\* the last line of the file, and raised.
C14_Witness ==
    /\ Finished /\ filepos > 0
    /\ filepos + 1 = Len(stream)
    /\ Clean(stream[filepos + 1]) = <<>>
    /\ pc = "raised" /\ exc = "AssertionError"
    /\ Len(out) >= 1

\* C15: parsing is a function of the lines: a second iteration of the same
\* file, from a fresh stream, yields the same Documents, ends with the same
\* exception if any, after the same number of invocations and lines; at
\* every point of it the Documents yielded are those the first iteration
\* yielded.
C15_SameOutcomeTwice ==
    first # NoOutcome =>
        /\ Len(out) <= Len(first[1][1])
        /\ out = SubSeq(first[1][1], 1, Len(out))
        /\ Terminal => Outcome = first[1]

\* C15 witness: the second iteration of a file has ended as the first did,
\* with a Document yielded and then an exception in a later invocation.
C15_Witness ==
    /\ first # NoOutcome /\ Terminal
    /\ Outcome = first[1]
    /\ Len(out) >= 1
    /\ Len(out[1].sents) >= 1
    /\ exc # ""
    /\ calls = Len(out) + 1

\* the k-th whitespace-separated run of a cleaned line
RunStart(s, k) == NthRunStart(s, 1, k)
RunEnd(s, k) == SkipNonSpace(s, RunStart(s, k)) - 1
Run(s, k) == SubSeq(s, RunStart(s, k), RunEnd(s, k))

\* the line is made of exactly n runs
HasRuns(s, n) == RunStart(s, n) # 0 /\ RunStart(s, n + 1) = 0

AllDigits(r) == r # <<>> /\ \A i \in 1..Len(r) : IsDigit(r[i])

\* a line of six runs, the last of digits, and its token by rule 3
SixRunLine(s) == HasRuns(s, 6) /\ AllDigits(Run(s, 6))

SixRunToken(s) ==
    << Str(SubSeq(s, RunStart(s, 1), RunEnd(s, 2))),
       Str(SubSeq(s, RunStart(s, 3), RunEnd(s, 4))),
       Str(Run(s, 5)), Str(Run(s, 6)) >>

\* C16: every line of exactly six runs whose last run is digits yields the
\* token whose word is the first two runs, lemma the third and fourth runs,
\* tag the fifth and sense the sixth, also when the fourth run is or starts
\* with digits.
C16_SixRunsDecodedByRule3 ==
    [][(pc = "inner" /\ TokenLoopTest(line) /\ SixRunLine(line.v)) =>
          sent' = Append(sent, SixRunToken(line.v))]_vars

\* a four-field record with an all-digit fourth field followed by a fifth
\* field, or four fields of which the fourth has other characters after its
\* leading digits
RecordWithExtra(s) ==
    \/ HasRuns(s, 5) /\ AllDigits(Run(s, 4))
    \/ HasRuns(s, 4) /\ IsDigit(Run(s, 4)[1]) /\ ~AllDigits(Run(s, 4))

\* C17: a line that starts with a four-field record and carries extra
\* content after it is unparsable: it adds no token to the sentence, and
\* when a further line follows the invocation raises ValueError.
C17_RecordWithExtraUnparsable ==
    [][(pc = "inner" /\ TokenLoopTest(line) /\ RecordWithExtra(line.v)) =>
          /\ sent' = sent
          /\ pos < Len(stream) => (pc' = "raised" /\ exc' = "ValueError")]_vars

\* C18: the line 'Fz 0' yields the token ('', '', 'Fz', '0') whose sense is
\* the text '0', the value that the sense of the line 'a b Fz 0' has.
C18_FzSenseIsText ==
    [][(pc = "inner" /\ line \in {Str(LINE_FZ), Str(LINE_FZ_RECORD)}) =>
          /\ Len(sent') = Len(sent) + 1
          /\ sent'[Len(sent')][3] = Str(<<"Fz">>)
          /\ sent'[Len(sent')][4] = Str(<<"0">>)
          /\ line = Str(LINE_FZ) =>
                sent'[Len(sent')] = <<Str(<<>>), Str(<<>>), Str(<<"Fz">>), Str(<<"0">>)>>]_vars

\* a block whose body ends on </doc>, with no end-of-article line
CloseOnlyBlockAt(st, p) ==
    LET k == CloseIndex(st, p)
    IN  /\ k >= p + 2
        /\ IsStartLine(Clean(st[p + 1]))
        /\ WellFormedBody(CleanLines(st, p + 1, k - 1))

\* C19: when the body of a block ends on </doc>, the invocation returns one
\* Document that holds the sentence in progress when </doc> was read, raises
\* nothing and has read no line after </doc>: the next invocation starts on
\* the line that follows it.
C19_CloseEndsBlock ==
    /\ (Finished /\ CloseOnlyBlockAt(stream, filepos)) =>
          /\ pc = "idle"
          /\ pos = CloseIndex(stream, filepos)
          /\ ret = <<ExpectedDoc(Clean(stream[filepos + 1]),
                                 CleanLines(stream, filepos + 1,
                                            CloseIndex(stream, filepos) - 1))>>
    /\ (calls = 2 /\ CloseOnlyBlockAt(stream, 0)) =>
          filepos = CloseIndex(stream, 0)

\* C19 witness: a block ended on </doc> right after a token line, its
\* Document was returned with that sentence, and the next invocation has
\* started on the line after </doc>.
C19_Witness ==
    /\ calls = 2 /\ CloseOnlyBlockAt(stream, 0)
    /\ IsTokenLine(Clean(stream[CloseIndex(stream, 0) - 1]))
    /\ filepos = CloseIndex(stream, 0)
    /\ filepos < Len(stream)
    /\ Len(out) >= 1
    /\ Len(out[1].sents) = 1
    /\ Len(out[1].sents[1]) = 1

\* every field of the token is present
TokenComplete(t) == \A i \in 1..4 : t[i] # None

\* C20: in every Document returned, every token has its word, lemma, tag and
\* sense, except the synthetic extra-word token, which comes only right
\* after the corrected date token, in the same sentence.
C20_OnlyExtraWordLacksFields ==
    \A d \in 1..Len(out) : \A j \in 1..Len(out[d].sents) :
        LET sn == out[d].sents[j]
        IN  \A k \in 1..Len(sn) :
                /\ Len(sn[k]) = 4
                /\ \/ TokenComplete(sn[k])
                   \/ /\ sn[k] = ExtraWordToken
                      /\ k > 1
                      /\ sn[k - 1] = DateToken

\* C20 witness: a Document was returned with a sentence that holds the date
\* token, the extra-word token right after it and a complete token after.
C20_Witness ==
    \E d \in 1..Len(out) : \E j \in 1..Len(out[d].sents) :
        LET sn == out[d].sents[j]
        IN  /\ Len(sn) = 3
            /\ sn[1] = DateToken /\ sn[2] = ExtraWordToken
            /\ TokenComplete(sn[3])

====
